---- MODULE Spec2Model ----
(***************************************************************************)
(* A model of the markov crate: the Sequence window (sequence.rs), the     *)
(* frequency Table (table.rs), the Model that maps windows to tables       *)
(* (model.rs) and the Accumulator that trains it (accumulator.rs).         *)
(*                                                                         *)
(* Option<TSymbol> is modelled by the symbols plus the value None; a       *)
(* Vec is a sequence (the code's 0-based index i is position i + 1); a     *)
(* HashMap is a function whose domain is the set of keys inserted.  A      *)
(* sample value x: f64 is its sign and the pair mantissa, exponent with    *)
(* x = mantissa / 2^exp, the 53-bit mantissa held in three limbs; the      *)
(* product x * total is rounded to 53 bits, ties to even, as the f64       *)
(* multiplication rounds it.  The grid values num / SampleDen are such     *)
(* values, with an exact product.  usize counters stay far below 2^64      *)
(* within the bounds, so they are plain naturals.  A panic (an             *)
(* out-of-range slice) ends the run.                                       *)
(***************************************************************************)
EXTENDS Integers, Sequences, FiniteSets

\* ------------------------------------------------------------------ bounds

\* Table.add calls explored on one table.
MaxAdds == 5
\* Sample values are the multiples of 1 / 2^SampleBits.
SampleBits == 2
\* Longest window handed to with_next directly.
MaxLen == 3
\* Largest model order explored.
MaxOrder == 2
\* advance_sequence calls explored from the empty window.
MaxFed == 5
\* Accumulator calls (new, add and end) explored on one model.
MaxTrain == 5

\* The symbol type TSymbol, and Option's None (the end-of-sequence marker
\* as a table key, "no symbol" as a result).
Symbols == {"a", "b", "c"}
None == "None"
Values == Symbols \cup {None}

SampleDen == 2 ^ SampleBits

Min(x, y) == IF x <= y THEN x ELSE y

SeqsUpTo(n) == UNION {[1..k -> Symbols] : k \in 0..n}

\* HashMap::insert: the key is added, or its value overwritten.
Insert(m, k, v) == [x \in DOMAIN m \cup {k} |-> IF x = k THEN v ELSE m[x]]

\* --------------------------------------------------------------- table.rs

\* Table::empty
EmptyTable == [total_symbols |-> 0, entries |-> <<>>, entry_indices |-> <<>>]

\* A plausible slip in sort_entry's test: stop only at a strictly greater
\* left neighbour, so that an equal one is overtaken.
sort_break_strict(fj, fi) == fj < fi

\* sort_entry's test that ends the leftward walk: entries[j].frequency <=
\* entries[i].frequency.
sort_break(fj, fi) == fj <= fi

\* A plausible slip: the swap without its tmp, entries[i] = entries[j] and
\* then entries[j] = entries[i], which leaves the moved entry in both places.
RECURSIVE sort_swaps_no_tmp(_, _, _)
sort_swaps_no_tmp(entries, j, i) ==
    IF i < 0
    THEN [entries |-> entries, j |-> j]
    ELSE IF sort_break(entries[j + 1].frequency, entries[i + 1].frequency)
    THEN [entries |-> entries, j |-> j]
    ELSE sort_swaps_no_tmp([entries EXCEPT ![i + 1] = entries[j + 1]], i, i - 1)

\* A plausible slip: a single swap with the left neighbour, not a walk.
sort_swaps_once(entries, j, i) ==
    IF i < 0
    THEN [entries |-> entries, j |-> j]
    ELSE IF sort_break(entries[j + 1].frequency, entries[i + 1].frequency)
    THEN [entries |-> entries, j |-> j]
    ELSE [entries |-> [entries EXCEPT ![i + 1] = entries[j + 1],
                                      ![j + 1] = entries[i + 1]],
          j |-> i]

\* sort_entry's first loop, for i in (0..index).rev(): the entry at j is
\* swapped with its left neighbour i until the test breaks or i runs out.
RECURSIVE sort_swaps(_, _, _)
sort_swaps(entries, j, i) ==
    IF i < 0
    THEN [entries |-> entries, j |-> j]
    ELSE IF sort_break(entries[j + 1].frequency, entries[i + 1].frequency)
    THEN [entries |-> entries, j |-> j]
    ELSE sort_swaps([entries EXCEPT ![i + 1] = entries[j + 1],
                                    ![j + 1] = entries[i + 1]], i, i - 1)

\* A plausible slip: only the moved entry's index is written again, not
\* those of the entries it displaced.
reindex_moved_only(entries, indices, i, index) ==
    Insert(indices, entries[i + 1].symbol, i)

\* sort_entry's second loop, for i in j..=index: the index of every entry
\* whose position may have changed is written again.
RECURSIVE reindex(_, _, _, _)
reindex(entries, indices, i, index) ==
    IF i > index
    THEN indices
    ELSE reindex(entries, Insert(indices, entries[i + 1].symbol, i), i + 1, index)

\* A plausible slip: the incremented entry is left where it was.
sort_entry_skip(t, index) == t

\* Table::sort_entry
sort_entry(t, index) ==
    LET r == sort_swaps(t.entries, index, index - 1)
    IN  [t EXCEPT !.entries = r.entries,
                  !.entry_indices = reindex(r.entries, t.entry_indices, r.j, index)]

\* A plausible slip: the running total is counted only for a new value.
table_add_total_new_only(t, s) ==
    IF s \in DOMAIN t.entry_indices
    THEN LET index == t.entry_indices[s]
         IN  sort_entry([t EXCEPT !.entries[index + 1].frequency = @ + 1], index)
    ELSE [total_symbols |-> t.total_symbols + 1,
          entries |-> Append(t.entries, [frequency |-> 1, symbol |-> s]),
          entry_indices |-> Insert(t.entry_indices, s, Len(t.entries))]

\* Table::add
table_add(t, s) ==
    IF s \in DOMAIN t.entry_indices
    THEN LET index == t.entry_indices[s]
             sorted == sort_entry([t EXCEPT !.entries[index + 1].frequency = @ + 1],
                                  index)
         IN  [sorted EXCEPT !.total_symbols = @ + 1]
    ELSE LET index == Len(t.entries)
         IN  [total_symbols |-> t.total_symbols + 1,
              entries |-> Append(t.entries, [frequency |-> 1, symbol |-> s]),
              entry_indices |-> Insert(t.entry_indices, s, index)]

\* A plausible slip: the last entry instead of the first.
most_frequent_last(t) ==
    IF Len(t.entries) = 0 THEN None ELSE t.entries[Len(t.entries)].symbol

\* A plausible slip: the end marker is skipped, and the first real symbol
\* returned.
most_frequent_skip_end(t) ==
    LET real == SelectSeq(t.entries, LAMBDA e : e.symbol # None)
    IN  IF Len(real) = 0 THEN None ELSE real[1].symbol

\* Table::most_frequent: the first entry's symbol (None for the end marker),
\* or None for an empty table.
most_frequent(t) ==
    IF Len(t.entries) = 0 THEN None ELSE t.entries[1].symbol

\* An f64 of magnitude (m2 * Limb^2 + m1 * Limb + m0) / 2^exp, negative
\* when neg: the mantissa, below 2^53, in limbs of 18 bits, the top one
\* holding 17.
Limb == 2 ^ 18
F64(neg, m2, m1, m0, exp) ==
    [neg |-> neg, m2 |-> m2, m1 |-> m1, m0 |-> m0, exp |-> exp]

\* The f64 num / SampleDen, which is exact.
GridValue(num) ==
    F64(num < 0, 0, 0, IF num < 0 THEN 0 - num ELSE num, SampleBits)

\* total_symbols as f64 is exact; the exact product of x's mantissa and
\* total, in limbs, the top one holding whatever is beyond 36 bits.  The
\* limbs stay below 2^31 for total < 2^13.
mantissa_times(x, total) ==
    LET c0 == x.m0 * total
        c1 == x.m1 * total + c0 \div Limb
    IN  [m2 |-> x.m2 * total + c1 \div Limb, m1 |-> c1 % Limb, m0 |-> c0 % Limb]

\* The number of bits of n >= 0.
RECURSIVE bit_length(_)
bit_length(n) == IF n = 0 THEN 0 ELSE 1 + bit_length(n \div 2)

\* The bits a mantissa p has beyond 53: those the f64 product drops.
dropped_bits(p) ==
    IF bit_length(p.m2) > 17 THEN bit_length(p.m2) - 17 ELSE 0

\* The f64 multiplication's rounding of a mantissa to 53 bits: to nearest,
\* ties to the even mantissa.
round_mantissa(p) ==
    LET k == dropped_bits(p)
        r == p.m0 % (2 ^ k)
        half == (2 ^ k) \div 2
        up == k > 0 /\ (r > half \/ (r = half /\ (p.m0 \div (2 ^ k)) % 2 = 1))
        m0 == p.m0 - r + (IF up THEN 2 ^ k ELSE 0)
    IN  IF m0 < Limb THEN [m2 |-> p.m2, m1 |-> p.m1, m0 |-> m0]
        ELSE IF p.m1 + 1 < Limb THEN [m2 |-> p.m2, m1 |-> p.m1 + 1, m0 |-> 0]
        ELSE [m2 |-> p.m2 + 1, m1 |-> 0, m0 |-> 0]

\* `as usize` on the non-negative value p / 2^exp: truncation.
truncate(p, exp) ==
    IF exp >= 36
    THEN IF exp - 36 >= 31 THEN 0 ELSE p.m2 \div (2 ^ (exp - 36))
    ELSE IF exp >= 18
    THEN p.m2 * (2 ^ (36 - exp)) + p.m1 \div (2 ^ (exp - 18))
    ELSE (IF p.m2 = 0 THEN 0 ELSE p.m2 * (2 ^ (36 - exp)))
             + p.m1 * (2 ^ (18 - exp)) + p.m0 \div (2 ^ exp)

\* (sample_value * self.total_symbols as f64) as usize for the f64 x: the
\* product is rounded, then the cast truncates toward zero and saturates,
\* so a negative product gives 0.
sample_target_value(x, total) ==
    IF x.neg
    THEN 0
    ELSE truncate(round_mantissa(mantissa_times(x, total)), x.exp)

\* A plausible slip: the product is rounded up instead of truncated.
sample_target_rounded_up(num, total) ==
    IF num * total < 0 THEN 0 ELSE (num * total + SampleDen - 1) \div SampleDen

\* A plausible slip: a cast that truncates and then wraps a negative value
\* round to the top of the range (2^30 here) instead of saturating at 0.
sample_target_wrapping(num, total) ==
    IF num * total < 0
    THEN (2 ^ 30 - ((0 - num * total) \div SampleDen)) % (2 ^ 30)
    ELSE (num * total) \div SampleDen

\* (sample_value * total_symbols as f64) as usize with sample_value =
\* num / SampleDen.
sample_target(num, total) == sample_target_value(GridValue(num), total)

\* A plausible slip in sample's test: remaining <= entry.frequency.
sample_hit_inclusive(remaining, frequency) == remaining <= frequency

\* sample's test for the entry that holds the target: remaining <
\* entry.frequency.
sample_hit(remaining, frequency) == remaining < frequency

\* sample's loop over the entries from position k on; None when it runs off
\* the end.
RECURSIVE sample_walk(_, _, _)
sample_walk(entries, k, remaining) ==
    IF k > Len(entries)
    THEN None
    ELSE IF sample_hit(remaining, entries[k].frequency)
    THEN entries[k].symbol
    ELSE sample_walk(entries, k + 1, remaining - entries[k].frequency)

\* Table::sample, with sample_value = num / SampleDen.
table_sample(t, num) ==
    sample_walk(t.entries, 1, sample_target(num, t.total_symbols))

\* Table::sample, with sample_value the f64 x.
table_sample_value(t, x) ==
    sample_walk(t.entries, 1, sample_target_value(x, t.total_symbols))

\* ------------------------------------------------------------ sequence.rs

\* A plausible slip: a full window keeps its last order symbols, not its
\* last order - 1, before the new one is pushed.
with_next_keep_order(symbols, next_symbol, ord) ==
    IF Len(symbols) < ord
    THEN [panic |-> FALSE, symbols |-> Append(symbols, next_symbol)]
    ELSE [panic |-> FALSE,
          symbols |-> Append(SubSeq(symbols, Len(symbols) - ord + 1, Len(symbols)),
                             next_symbol)]

\* Sequence::with_next.  The slice &symbols[(len + 1 - order)..] panics when
\* its start is past the end of the vector.
with_next(symbols, next_symbol, ord) ==
    IF Len(symbols) < ord
    THEN [panic |-> FALSE, symbols |-> Append(symbols, next_symbol)]
    ELSE LET start == Len(symbols) + 1 - ord
         IN  IF start > Len(symbols)
             THEN [panic |-> TRUE, symbols |-> <<>>]
             ELSE [panic |-> FALSE,
                   symbols |-> Append(SubSeq(symbols, start + 1, Len(symbols)),
                                      next_symbol)]

\* --------------------------------------------------------------- model.rs

\* A plausible slip: every observation lands in a fresh table.
model_add_fresh(m, seq, next_symbol) ==
    Insert(m, seq, table_add(EmptyTable, next_symbol))

\* A plausible slip: the table made for a new window is never inserted.
model_add_no_insert(m, seq, next_symbol) ==
    IF seq \in DOMAIN m
    THEN [m EXCEPT ![seq] = table_add(@, next_symbol)]
    ELSE m

\* A plausible slip: the tables share their state, so that an observation
\* made for one window shows in every table.
model_add_shared(m, seq, next_symbol) ==
    [c \in DOMAIN m \cup {seq} |->
        table_add(IF c \in DOMAIN m THEN m[c] ELSE EmptyTable, next_symbol)]

\* Model::add
model_add(m, seq, next_symbol) ==
    IF seq \in DOMAIN m
    THEN [m EXCEPT ![seq] = table_add(@, next_symbol)]
    ELSE Insert(m, seq, table_add(EmptyTable, next_symbol))

\* Model::advance_sequence
advance_sequence(ord, seq, next_symbol) == with_next(seq, next_symbol, ord)

\* Model::predict
model_predict(m, seq) ==
    IF seq \in DOMAIN m THEN most_frequent(m[seq]) ELSE None

\* Model::sample
model_sample(m, seq, num) ==
    IF seq \in DOMAIN m THEN table_sample(m[seq], num) ELSE None

\* A plausible slip: a lookup through the entry API, which inserts an empty
\* table for a window it has not seen.
model_after_read_inserting(m, seq) ==
    IF seq \in DOMAIN m THEN m ELSE Insert(m, seq, EmptyTable)

\* The model after Model::advance_sequence, predict or sample on seq: they
\* take &self and assign to none of its fields.
model_after_read(m, seq) == m

\* ----------------------------------------------- generator.rs, predictor.rs

\* A plausible slip: a Generator that starts a new sequence by itself when
\* nothing is sampled.
generator_next_reset_on_none(m, ord, seq, num) ==
    LET s == model_sample(m, seq, num)
    IN  IF s # None
        THEN LET r == advance_sequence(ord, seq, s)
             IN  [out |-> IF r.panic THEN None ELSE s,
                  seq |-> IF r.panic THEN seq ELSE r.symbols,
                  panic |-> r.panic]
        ELSE [out |-> None, seq |-> <<>>, panic |-> FALSE]

\* Generator::next with next_rand() = num / SampleDen: what it returns, the
\* current_sequence it leaves, and whether the advance panicked.
generator_next(m, ord, seq, num) ==
    LET s == model_sample(m, seq, num)
    IN  IF s # None
        THEN LET r == advance_sequence(ord, seq, s)
             IN  [out |-> IF r.panic THEN None ELSE s,
                  seq |-> IF r.panic THEN seq ELSE r.symbols,
                  panic |-> r.panic]
        ELSE [out |-> None, seq |-> seq, panic |-> FALSE]

\* Predictor::next: what it returns, the current_sequence it leaves, and
\* whether the advance panicked.
predictor_next(m, ord, seq) ==
    LET s == model_predict(m, seq)
    IN  IF s # None
        THEN LET r == advance_sequence(ord, seq, s)
             IN  [out |-> IF r.panic THEN None ELSE s,
                  seq |-> IF r.panic THEN seq ELSE r.symbols,
                  panic |-> r.panic]
        ELSE [out |-> None, seq |-> seq, panic |-> FALSE]

\* ------------------------------------------------------------------ state

VARIABLES
    \* One Table under test, the values handed to its add so far (oldest
    \* first), and the latest sample call with what it returned:
    \* last_sample when its value was num / SampleDen, last_value_sample
    \* when it was another f64.
    table, added, last_sample, last_value_sample,
    \* One call of Sequence::with_next: its arguments, its position ("call",
    \* "returned" or "panicked") and the window it returned.
    wn,
    \* A window rolled forward by Model::advance_sequence from the empty
    \* window, and the symbols it was fed.
    window, fed,
    \* A Model (order, tables_by_seq) trained through an Accumulator
    \* (current_sequence), and the Accumulator calls made so far after the
    \* first new: "New" for a later Accumulator::new, a symbol
    \* for add(symbol), None for end().
    order, tables_by_seq, current_sequence, calls,
    \* The windows handed to Model::add so far, oldest first.
    model_adds,
    \* Which wrapper holds the model ("train": the Accumulator, then
    \* "predictor" or "generator"), the Predictor's and the Generator's
    \* current_sequence, and the latest wrapper call: its name, the sample
    \* numerator it drew, and the symbol it was given or returned.
    mode, predictor_sequence, generator_sequence, last_call,
    \* Whether a call has panicked, which ends the run.
    panicked

vars == <<table, added, last_sample, last_value_sample, wn, window, fed,
          order, tables_by_seq, current_sequence, calls, model_adds,
          mode, predictor_sequence, generator_sequence, last_call, panicked>>

table_vars == <<table, added, last_sample, last_value_sample>>
advance_vars == <<window, fed>>
model_vars == <<tables_by_seq, current_sequence, calls, model_adds>>
reader_vars == <<mode, predictor_sequence, generator_sequence, last_call>>

Call(op, num, symbol) == [op |-> op, num |-> num, symbol |-> symbol]

NoSample == [called |-> FALSE, num |-> 0, result |-> None]
NoValueSample == [called |-> FALSE, value |-> GridValue(0), result |-> None]
NoCall == [current |-> <<>>, next_symbol |-> "a", order |-> 1,
           status |-> "idle", out |-> <<>>]

\* The sample values tried: -1/SampleDen up to (SampleDen + 1)/SampleDen, so
\* the whole of [0, 1) on the grid and a value either side of it.
SampleNums == -1 .. SampleDen + 1
\* The numerators of the sample values in [0, 1).
UnitNums == 0 .. SampleDen - 1

\* The f64 literals 1.0 / 3.0, 0.6 and 2.0 / 3.0, and the largest f64 below
\* 1.0 (1 - 2^-53): sample values in [0, 1) that are not on the grid.
OneThird == F64(FALSE, 87381, 87381, 87381, 54)
SixTenths == F64(FALSE, 78643, 52428, 209715, 53)
TwoThirds == F64(FALSE, 87381, 87381, 87381, 53)
BelowOne == F64(FALSE, 131071, 262143, 262143, 53)
OffGridValues == {OneThird, SixTenths, TwoThirds, BelowOne}

\* ------------------------------------------------------- a table on its own

TableInit ==
    /\ table = EmptyTable
    /\ added = <<>>
    /\ last_sample = NoSample
    /\ last_value_sample = NoValueSample
    /\ wn = NoCall
    /\ window = <<>>
    /\ fed = <<>>
    /\ order = 1
    /\ tables_by_seq = <<>>
    /\ current_sequence = <<>>
    /\ calls = <<>>
    /\ model_adds = <<>>
    /\ mode = "train"
    /\ predictor_sequence = <<>>
    /\ generator_sequence = <<>>
    /\ last_call = Call("new", 0, None)
    /\ panicked = FALSE

\* t.add(s)
TableAdd(s) ==
    /\ Len(added) < MaxAdds
    /\ table' = table_add(table, s)
    /\ added' = Append(added, s)
    /\ last_sample' = NoSample
    /\ last_value_sample' = NoValueSample
    /\ UNCHANGED <<wn, advance_vars, order, model_vars, reader_vars, panicked>>

\* t.sample(num / SampleDen)
TableSample(num) ==
    /\ last_sample' = [called |-> TRUE, num |-> num,
                       result |-> table_sample(table, num)]
    /\ last_value_sample' = NoValueSample
    /\ UNCHANGED <<table, added, wn, advance_vars, order, model_vars, reader_vars, panicked>>

\* t.sample(x) for an f64 x
TableSampleValue(x) ==
    /\ last_value_sample' = [called |-> TRUE, value |-> x,
                             result |-> table_sample_value(table, x)]
    /\ last_sample' = NoSample
    /\ UNCHANGED <<table, added, wn, advance_vars, order, model_vars, reader_vars, panicked>>

TableNext ==
    \/ \E s \in Values : TableAdd(s)
    \/ \E num \in SampleNums : TableSample(num)
    \/ \E x \in OffGridValues : TableSampleValue(x)

TableSpec == TableInit /\ [][TableNext]_vars

\* ------------------------------------------------- with_next on its own

WithNextInit ==
    /\ wn \in [current : SeqsUpTo(MaxLen), next_symbol : Symbols,
               order : 0..MaxOrder + 1, status : {"call"}, out : {<<>>}]
    /\ table = EmptyTable
    /\ added = <<>>
    /\ last_sample = NoSample
    /\ last_value_sample = NoValueSample
    /\ window = <<>>
    /\ fed = <<>>
    /\ order = 1
    /\ tables_by_seq = <<>>
    /\ current_sequence = <<>>
    /\ calls = <<>>
    /\ model_adds = <<>>
    /\ mode = "train"
    /\ predictor_sequence = <<>>
    /\ generator_sequence = <<>>
    /\ last_call = Call("new", 0, None)
    /\ panicked = FALSE

\* current.with_next(next_symbol, order)
WithNextCall ==
    /\ wn.status = "call"
    /\ LET r == with_next(wn.current, wn.next_symbol, wn.order)
       IN  wn' = [wn EXCEPT !.status = IF r.panic THEN "panicked" ELSE "returned",
                            !.out = r.symbols]
    /\ UNCHANGED <<table_vars, advance_vars, order, model_vars, reader_vars, panicked>>

WithNextNext == WithNextCall

WithNextSpec == WithNextInit /\ [][WithNextNext]_vars

\* ------------------------------------- advancing a window from the start

AdvanceInit ==
    /\ order \in 0..MaxOrder
    /\ window = <<>>
    /\ fed = <<>>
    /\ panicked = FALSE
    /\ table = EmptyTable
    /\ added = <<>>
    /\ last_sample = NoSample
    /\ last_value_sample = NoValueSample
    /\ wn = NoCall
    /\ tables_by_seq = <<>>
    /\ current_sequence = <<>>
    /\ calls = <<>>
    /\ model_adds = <<>>
    /\ mode = "train"
    /\ predictor_sequence = <<>>
    /\ generator_sequence = <<>>
    /\ last_call = Call("new", 0, None)

\* seq = model.advance_sequence(&seq, s)
Advance(s) ==
    /\ ~panicked
    /\ Len(fed) < MaxFed
    /\ LET r == advance_sequence(order, window, s)
       IN  /\ panicked' = r.panic
           /\ window' = IF r.panic THEN window ELSE r.symbols
    /\ fed' = Append(fed, s)
    /\ UNCHANGED <<table_vars, wn, order, model_vars, reader_vars>>

AdvanceNext == \E s \in Symbols : Advance(s)

AdvanceSpec == AdvanceInit /\ [][AdvanceNext]_vars

\* ------------------------------------- a model trained by an accumulator

\* Model::empty(order) and Accumulator::new(&mut model)
Init ==
    /\ order \in 0..MaxOrder
    /\ tables_by_seq = <<>>
    /\ current_sequence = <<>>
    /\ calls = <<>>
    /\ model_adds = <<>>
    /\ mode = "train"
    /\ predictor_sequence = <<>>
    /\ generator_sequence = <<>>
    /\ last_call = Call("new", 0, None)
    /\ panicked = FALSE
    /\ table = EmptyTable
    /\ added = <<>>
    /\ last_sample = NoSample
    /\ last_value_sample = NoValueSample
    /\ wn = NoCall
    /\ window = <<>>
    /\ fed = <<>>

\* The entry of calls that stands for Accumulator::new.
NewAccumulator == "New"

\* The wrapper that holds the model is dropped; Accumulator::new(&mut model)
\* on the model as it is, with an empty window.
AccNew ==
    /\ ~panicked
    /\ Len(calls) < MaxTrain
    /\ mode' = "train"
    /\ current_sequence' = <<>>
    /\ calls' = Append(calls, NewAccumulator)
    /\ predictor_sequence' = <<>>
    /\ generator_sequence' = <<>>
    /\ last_call' = Call("new", 0, None)
    /\ UNCHANGED <<table_vars, wn, advance_vars, order, tables_by_seq,
                   model_adds, panicked>>

\* Accumulator::add: the observation is recorded, then the window advances.
AccAdd(symbol) ==
    /\ ~panicked
    /\ mode = "train"
    /\ Len(calls) < MaxTrain
    /\ tables_by_seq' = model_add(tables_by_seq, current_sequence, symbol)
    /\ LET r == advance_sequence(order, current_sequence, symbol)
       IN  /\ panicked' = r.panic
           /\ current_sequence' = IF r.panic THEN current_sequence ELSE r.symbols
    /\ calls' = Append(calls, symbol)
    /\ model_adds' = Append(model_adds, current_sequence)
    /\ last_call' = Call("add", 0, symbol)
    /\ UNCHANGED <<table_vars, wn, advance_vars, order,
                   mode, predictor_sequence, generator_sequence>>

\* Accumulator::end: the end marker is recorded, then the window is reset.
AccEnd ==
    /\ ~panicked
    /\ mode = "train"
    /\ Len(calls) < MaxTrain
    /\ tables_by_seq' = model_add(tables_by_seq, current_sequence, None)
    /\ current_sequence' = <<>>
    /\ calls' = Append(calls, None)
    /\ model_adds' = Append(model_adds, current_sequence)
    /\ last_call' = Call("end", 0, None)
    /\ UNCHANGED <<table_vars, wn, advance_vars, order, panicked,
                   mode, predictor_sequence, generator_sequence>>

Next ==
    \/ \E symbol \in Symbols : AccAdd(symbol)
    \/ AccEnd
    \/ AccNew

Spec == Init /\ [][Next]_vars

\* ------------------------- a trained model read by its wrappers

\* The symbols used where a model is trained and then read, and the values
\* the Generator's rand_source returns there: 0, 1/2 and the largest value
\* of the grid below 1.
ReadSymbols == {"a", "b"}
RandNums == {0, SampleDen \div 2, SampleDen - 1}

\* Accumulator::predict
AccPredict ==
    /\ ~panicked
    /\ mode = "train"
    /\ last_call' = Call("acc_predict", 0, model_predict(tables_by_seq, current_sequence))
    /\ tables_by_seq' = model_after_read(tables_by_seq, current_sequence)
    /\ UNCHANGED <<table_vars, wn, advance_vars, order, current_sequence, calls,
                   model_adds, mode, predictor_sequence, generator_sequence,
                   panicked>>

\* The Accumulator is dropped; Predictor::new(&model)
NewPredictor ==
    /\ ~panicked
    /\ mode = "train"
    /\ mode' = "predictor"
    /\ predictor_sequence' = <<>>
    /\ last_call' = Call("new_predictor", 0, None)
    /\ UNCHANGED <<table_vars, wn, advance_vars, order, model_vars,
                   generator_sequence, panicked>>

\* The Accumulator is dropped; Generator::new(&model, rand_source)
NewGenerator ==
    /\ ~panicked
    /\ mode = "train"
    /\ mode' = "generator"
    /\ generator_sequence' = <<>>
    /\ last_call' = Call("new_generator", 0, None)
    /\ UNCHANGED <<table_vars, wn, advance_vars, order, model_vars,
                   predictor_sequence, panicked>>

\* Predictor::given
PredictorGiven(symbol) ==
    /\ ~panicked
    /\ mode = "predictor"
    /\ LET r == advance_sequence(order, predictor_sequence, symbol)
       IN  /\ panicked' = r.panic
           /\ predictor_sequence' = IF r.panic THEN predictor_sequence ELSE r.symbols
    /\ last_call' = Call("given", 0, symbol)
    /\ tables_by_seq' = model_after_read(tables_by_seq, predictor_sequence)
    /\ UNCHANGED <<table_vars, wn, advance_vars, order, current_sequence, calls,
                   model_adds, mode, generator_sequence>>

\* Predictor::next
PredictorNext ==
    /\ ~panicked
    /\ mode = "predictor"
    /\ LET r == predictor_next(tables_by_seq, order, predictor_sequence)
       IN  /\ panicked' = r.panic
           /\ predictor_sequence' = r.seq
           /\ last_call' = Call("next", 0, r.out)
    /\ tables_by_seq' = model_after_read(tables_by_seq, predictor_sequence)
    /\ UNCHANGED <<table_vars, wn, advance_vars, order, current_sequence, calls,
                   model_adds, mode, generator_sequence>>

\* Predictor::predict
PredictorPredict ==
    /\ ~panicked
    /\ mode = "predictor"
    /\ last_call' = Call("predict", 0, model_predict(tables_by_seq, predictor_sequence))
    /\ tables_by_seq' = model_after_read(tables_by_seq, predictor_sequence)
    /\ UNCHANGED <<table_vars, wn, advance_vars, order, current_sequence, calls,
                   model_adds, mode, predictor_sequence, generator_sequence,
                   panicked>>

\* Predictor::end
PredictorEnd ==
    /\ ~panicked
    /\ mode = "predictor"
    /\ predictor_sequence' = <<>>
    /\ last_call' = Call("predictor_end", 0, None)
    /\ UNCHANGED <<table_vars, wn, advance_vars, order, model_vars,
                   mode, generator_sequence, panicked>>

\* Generator::next, next_rand() returning num / SampleDen
GeneratorNext(num) ==
    /\ ~panicked
    /\ mode = "generator"
    /\ LET r == generator_next(tables_by_seq, order, generator_sequence, num)
       IN  /\ panicked' = r.panic
           /\ generator_sequence' = r.seq
           /\ last_call' = Call("generate", num, r.out)
    /\ tables_by_seq' = model_after_read(tables_by_seq, generator_sequence)
    /\ UNCHANGED <<table_vars, wn, advance_vars, order, current_sequence, calls,
                   model_adds, mode, predictor_sequence>>

\* Generator::end
GeneratorEnd ==
    /\ ~panicked
    /\ mode = "generator"
    /\ generator_sequence' = <<>>
    /\ last_call' = Call("generator_end", 0, None)
    /\ UNCHANGED <<table_vars, wn, advance_vars, order, model_vars,
                   mode, predictor_sequence, panicked>>

ReadNext ==
    \/ \E symbol \in ReadSymbols : AccAdd(symbol)
    \/ AccEnd
    \/ AccNew
    \/ AccPredict
    \/ NewPredictor
    \/ NewGenerator
    \/ \E symbol \in ReadSymbols : PredictorGiven(symbol)
    \/ PredictorNext
    \/ PredictorPredict
    \/ PredictorEnd
    \/ \E num \in RandNums : GeneratorNext(num)
    \/ GeneratorEnd

ReadSpec == Init /\ [][ReadNext]_vars

\* ------------------ a Generator and a Predictor side by side on a model

\* The Accumulator is dropped; Generator::new(&model, Box::new(|| 0.0)) and
\* Predictor::new(&model) borrow the same model.
NewReaders ==
    /\ ~panicked
    /\ mode = "train"
    /\ mode' = "lockstep"
    /\ generator_sequence' = <<>>
    /\ predictor_sequence' = <<>>
    /\ last_call' = Call("new_readers", 0, None)
    /\ UNCHANGED <<table_vars, wn, advance_vars, order, model_vars, panicked>>

\* Generator::next with next_rand() = 0.0, the first half of a step.
LockGenerate ==
    /\ ~panicked
    /\ mode = "lockstep"
    /\ last_call.op # "generate"
    /\ LET r == generator_next(tables_by_seq, order, generator_sequence, 0)
       IN  /\ panicked' = r.panic
           /\ generator_sequence' = r.seq
           /\ last_call' = Call("generate", 0, r.out)
    /\ tables_by_seq' = model_after_read(tables_by_seq, generator_sequence)
    /\ UNCHANGED <<table_vars, wn, advance_vars, order, current_sequence, calls,
                   model_adds, mode, predictor_sequence>>

\* Predictor::next, the second half of a step.
LockPredict ==
    /\ ~panicked
    /\ mode = "lockstep"
    /\ last_call.op = "generate"
    /\ LET r == predictor_next(tables_by_seq, order, predictor_sequence)
       IN  /\ panicked' = r.panic
           /\ predictor_sequence' = r.seq
           /\ last_call' = Call("next", 0, r.out)
    /\ tables_by_seq' = model_after_read(tables_by_seq, predictor_sequence)
    /\ UNCHANGED <<table_vars, wn, advance_vars, order, current_sequence, calls,
                   model_adds, mode, generator_sequence>>

LockNext ==
    \/ \E symbol \in Symbols : AccAdd(symbol)
    \/ AccEnd
    \/ AccNew
    \/ NewReaders
    \/ LockGenerate
    \/ LockPredict

LockSpec == Init /\ [][LockNext]_vars

\* ----------------------------------------------------- what the claims use

\* The sum of the frequencies of a list of entries.
RECURSIVE SumFreq(_)
SumFreq(entries) ==
    IF entries = <<>> THEN 0 ELSE Head(entries).frequency + SumFreq(Tail(entries))

\* Each entry's symbol repeated frequency times, in the order of the list.
RECURSIVE Expanded(_)
Expanded(entries) ==
    IF entries = <<>>
    THEN <<>>
    ELSE [i \in 1..Head(entries).frequency |-> Head(entries).symbol]
         \o Expanded(Tail(entries))

\* The positions of a sequence that hold v; the first and the last of them.
Positions(seq, v) == {i \in 1..Len(seq) : seq[i] = v}
FirstIndex(seq, v) == CHOOSE i \in Positions(seq, v) : \A k \in Positions(seq, v) : i <= k
LastIndex(seq, v) == CHOOSE i \in Positions(seq, v) : \A k \in Positions(seq, v) : k <= i

\* The last n elements of a sequence.
LastN(seq, n) == SubSeq(seq, Len(seq) - n + 1, Len(seq))

\* floor(x * total) for x = num / SampleDen, num >= 0.
Floor(num, total) == (num * total) \div SampleDen

\* Whether the entry whose run of the cumulative frequencies holds
\* floor(x * total) is the end marker.
EndSelected(t, num) ==
    \E k \in 1..Len(t.entries) :
        /\ SumFreq(SubSeq(t.entries, 1, k - 1)) <= Floor(num, t.total_symbols)
        /\ Floor(num, t.total_symbols) < SumFreq(SubSeq(t.entries, 1, k))
        /\ t.entries[k].symbol = None

\* ------------------------------------------------------------------ claims

\* C1: after every Table.add, from the empty table on, the entry list is
\* sorted in non-increasing order of frequency.
C1_SortedDescending ==
    \A i \in 1..Len(table.entries) - 1 :
        table.entries[i].frequency >= table.entries[i + 1].frequency

\* C1's case: an entry added later has overtaken one added before it.
C1_Witness ==
    \E i \in 1..Len(table.entries) - 1 :
        /\ table.entries[i].frequency > table.entries[i + 1].frequency
        /\ FirstIndex(added, table.entries[i].symbol)
               > FirstIndex(added, table.entries[i + 1].symbol)

\* C2: the frequencies sum to the number of add calls made on the table and
\* to its total_symbols counter, whichever branch each add took.
C2_TotalIsSumIsCalls ==
    /\ SumFreq(table.entries) = Len(added)
    /\ table.total_symbols = Len(added)

\* C2's case: adds of a new value and of a known value have both happened.
C2_Witness ==
    /\ Len(table.entries) >= 2
    /\ Len(added) >= Len(table.entries) + 2

\* C3: of two entries of equal frequency, the one that reached that
\* frequency earlier (whose last add is the older) is ahead; adding a, b, b,
\* a leaves [b, a], with b the most frequent.
C3_EqualFrequencyKeepsArrivalOrder ==
    /\ \A i, j \in 1..Len(table.entries) :
           (i < j /\ table.entries[i].frequency = table.entries[j].frequency)
               => LastIndex(added, table.entries[i].symbol)
                      < LastIndex(added, table.entries[j].symbol)
    /\ added = <<"a", "b", "b", "a">>
           => /\ table.entries = <<[frequency |-> 2, symbol |-> "b"],
                                   [frequency |-> 2, symbol |-> "a"]>>
              /\ most_frequent(table) = "b"

\* C3's case: a, b, b, a has been added, and a has caught up with b without
\* passing it.
C3_Witness ==
    /\ added = <<"a", "b", "b", "a">>
    /\ most_frequent(table) = "b"
    /\ table.entries[2] = [frequency |-> 2, symbol |-> "a"]

\* The sample values in [0, 1): those of the grid and the others.
UnitValues == {GridValue(num) : num \in UnitNums} \cup OffGridValues

\* floor(x * total) of the real product, for an f64 x >= 0.
ExactFloor(x, total) == truncate(mantissa_times(x, total), x.exp)

\* Whether the real product x * total is an f64, so that the
\* multiplication returns it unrounded.
ProductExact(x, total) ==
    round_mantissa(mantissa_times(x, total)) = mantissa_times(x, total)

\* C4 as stated: with total > 0 and x in [0, 1), sample(x) is the element at
\* index floor(x * total) of the list that repeats each entry frequency
\* times in the current order.
C4_Original ==
    table.total_symbols > 0 =>
        \A x \in UnitValues :
            table_sample_value(table, x)
                = Expanded(table.entries)[ExactFloor(x, table.total_symbols) + 1]

\* C4 as amended: with total > 0 and x in [0, 1), sample(x) is the element
\* of that list at the index got by truncating the f64 product x * total,
\* which is rounded to nearest; the index is below total, it is
\* floor(x * total) or one more, and it is floor(x * total) whenever the
\* product is exact, as it is for every x = num / SampleDen.
C4_SampleIndexesByRoundedProduct ==
    table.total_symbols > 0 =>
        /\ \A x \in UnitValues :
               LET f == ExactFloor(x, table.total_symbols)
                   i == sample_target_value(x, table.total_symbols)
               IN  /\ table_sample_value(table, x) = Expanded(table.entries)[i + 1]
                   /\ i \in {f, f + 1}
                   /\ i < table.total_symbols
                   /\ ProductExact(x, table.total_symbols) => i = f
        /\ \A num \in UnitNums :
               /\ ProductExact(GridValue(num), table.total_symbols)
               /\ table_sample(table, num)
                      = Expanded(table.entries)[Floor(num, table.total_symbols) + 1]

\* C4's case: sample(1.0 / 3.0) on a table of three observations has
\* returned the entry at index 1, where floor(x * total) is 0 and the entry
\* at index 0 holds another value.
C4_Witness ==
    /\ last_value_sample.called
    /\ last_value_sample.value = OneThird
    /\ table.total_symbols = 3
    /\ ExactFloor(OneThird, 3) = 0
    /\ Len(table.entries) = 3
    /\ last_value_sample.result = table.entries[2].symbol
    /\ last_value_sample.result # table.entries[1].symbol
    /\ last_value_sample.result # None

\* C5 as stated: with x in [0, 1), sample(x) is "none" only on a table with
\* no observation; with at least one (of a symbol or of the end marker) it
\* is not "none".
C5_Original ==
    \A num \in UnitNums :
        table.total_symbols > 0 => table_sample(table, num) # None

\* C5 as amended: with x in [0, 1), sample(x) is "none" exactly when the
\* table has no observation or the entry that x selects is the end marker.
C5_NoneOnlyEmptyOrEndSelected ==
    \A num \in UnitNums :
        table_sample(table, num) = None
            <=> (table.total_symbols = 0 \/ EndSelected(table, num))

\* C5's case: a sample on a table with observations has returned "none",
\* and another x on the same table would select a symbol.
C5_Witness ==
    /\ last_sample.called
    /\ last_sample.num \in UnitNums
    /\ table.total_symbols > 0
    /\ last_sample.result = None
    /\ \E num \in UnitNums : table_sample(table, num) # None

\* The contexts looked at in a model: its keys and every window up to the
\* largest order.
Contexts == DOMAIN tables_by_seq \cup SeqsUpTo(MaxOrder)

\* C6: on a non-empty table sample(0.0) is the symbol of the entry at
\* position 0, so Model.sample(context, 0.0) = Model.predict(context) for
\* every context, seen or not.
C6_SampleZeroIsPredict ==
    /\ \A c \in DOMAIN tables_by_seq :
           Len(tables_by_seq[c].entries) > 0
               => table_sample(tables_by_seq[c], 0) = tables_by_seq[c].entries[1].symbol
    /\ \A c \in Contexts :
           model_sample(tables_by_seq, c, 0) = model_predict(tables_by_seq, c)

\* C6's case: a context whose table holds several entries, the first of
\* them a symbol, which both calls return.
C6_Witness ==
    \E c \in DOMAIN tables_by_seq :
        /\ Len(tables_by_seq[c].entries) >= 2
        /\ tables_by_seq[c].entries[1].frequency >= 2
        /\ model_predict(tables_by_seq, c) # None
        /\ model_sample(tables_by_seq, c, 0) = tables_by_seq[c].entries[1].symbol

\* C7 as stated: for every window, symbol and order, with_next returns all
\* of current followed by symbol when len(current) < order, and otherwise
\* the last order - 1 symbols of current followed by symbol; the result has
\* length min(len(current) + 1, order).
C7_WithNextResult ==
    wn.status \in {"returned", "panicked"} =>
        /\ wn.status = "returned"
        /\ wn.out = (IF Len(wn.current) < wn.order
                     THEN wn.current
                     ELSE LastN(wn.current, wn.order - 1)) \o <<wn.next_symbol>>
        /\ Len(wn.out) = Min(Len(wn.current) + 1, wn.order)

\* C8 as stated: with order = 0, advancing any window by any symbol succeeds
\* and yields the empty window.
C8_OrderZeroYieldsEmpty ==
    (wn.order = 0 /\ wn.status \in {"returned", "panicked"}) =>
        /\ wn.status = "returned"
        /\ wn.out = <<>>

\* C9 as stated: for a model of order k, after every advance from the empty
\* window with s1..sn there is a window, of length at most k, holding
\* exactly the last min(n, k) of s1..sn.
C9_WindowIsSuffixOfFed ==
    /\ ~panicked
    /\ Len(window) <= order
    /\ window = LastN(fed, Min(Len(fed), order))

\* The positions of a call log where the window was emptied: an end() or
\* an Accumulator::new.
Resets(log) == {i \in 1..Len(log) : log[i] \in {None, NewAccumulator}}

\* The symbols of a call log added since its most recent end(), or since
\* the Accumulator was made when that is later.
SinceEnd(log) ==
    IF Resets(log) = {}
    THEN log
    ELSE SubSeq(log, (CHOOSE i \in Resets(log) : \A j \in Resets(log) : j <= i) + 1,
                Len(log))

\* The accumulator's window when call i was issued, as C10 defines it: the
\* last min(n, k) of the n symbols added since the most recent end().
WindowAt(i) ==
    LET since == SinceEnd(SubSeq(calls, 1, i - 1))
    IN  LastN(since, Min(Len(since), order))

\* The number of add(v) calls (end() for v = None) issued while the window
\* was c.
Issued(c, v) == Cardinality({i \in 1..Len(calls) : calls[i] = v /\ WindowAt(i) = c})

\* The frequency of v in c's table, 0 when there is no such table or entry.
Frequency(c, v) ==
    IF c \in DOMAIN tables_by_seq
    THEN SumFreq(SelectSeq(tables_by_seq[c].entries, LAMBDA e : e.symbol = v))
    ELSE 0

\* C10: after any Accumulator calls on a fresh model of order k, the
\* frequency of v in c's table is the number of add(v) / end() calls issued
\* while the accumulator's window was c; an Accumulator made later on the
\* same model starts from the empty window and adds to the same counts.
C10_FrequenciesCountCalls ==
    \A c \in Contexts : \A v \in Values : Frequency(c, v) = Issued(c, v)

\* C10's case: training that went through an end() and filled a window to
\* the model's order has recorded the same successor twice in one context.
C10_Witness ==
    /\ order >= 1
    /\ Positions(calls, None) # {}
    /\ \E c \in DOMAIN tables_by_seq : \E v \in Symbols :
           /\ Len(c) = order
           /\ Frequency(c, v) >= 2

\* The symbols of a list of entries, in order.
SymbolsOf(entries) == [i \in 1..Len(entries) |-> entries[i].symbol]

\* The frequency a list of entries gives to v: 0 when v has no entry.
FreqOf(entries, v) == SumFreq(SelectSeq(entries, LAMBDA e : e.symbol = v))

\* C17: after every Table.add the index agrees with the entry list: each
\* value is in exactly one entry, the index has one key per entry, and it
\* maps the symbol at position i to i.
C17_IndexMatchesEntries ==
    /\ \A i, j \in 1..Len(table.entries) :
           table.entries[i].symbol = table.entries[j].symbol => i = j
    /\ DOMAIN table.entry_indices
           = {table.entries[i].symbol : i \in 1..Len(table.entries)}
    /\ Cardinality(DOMAIN table.entry_indices) = Len(table.entries)
    /\ \A i \in 1..Len(table.entries) :
           table.entry_indices[table.entries[i].symbol] = i - 1

\* C17's case: the last add moved its entry left past two others, whose
\* positions in the index had to change as well.
C17_Witness ==
    /\ Len(added) >= 4
    /\ Len(table.entries) >= 3
    /\ table.entries[1].symbol = added[Len(added)]
    /\ FirstIndex(added, table.entries[1].symbol)
           > FirstIndex(added, table.entries[2].symbol)
    /\ FirstIndex(added, table.entries[1].symbol)
           > FirstIndex(added, table.entries[3].symbol)
    /\ table.entries[1].frequency = 2

\* C18: each Table.add(v) raises the frequency of v by exactly 1 (from 0 to
\* 1 for a new v) and leaves every other value's frequency as it was; no
\* entry is removed.
C18_AddRaisesOnlyItsValue ==
    [][added' # added =>
        /\ \A u \in Values :
               FreqOf(table'.entries, u)
                   = FreqOf(table.entries, u)
                         + (IF u = added'[Len(added')] THEN 1 ELSE 0)
        /\ Len(table'.entries) >= Len(table.entries)
        /\ \A i \in 1..Len(table.entries) :
               \E k \in 1..Len(table'.entries) :
                   table'.entries[k].symbol = table.entries[i].symbol]_vars

\* C18's case: a known value has been added again while other values sit in
\* the table, one of them moved by the add.
C18_Witness ==
    /\ Len(table.entries) >= 3
    /\ table.entries[1].frequency >= 2
    /\ table.entries[1].symbol = added[Len(added)]
    /\ table.entries[1].symbol # added[1]

\* The position of v in a list of entries that holds it once.
PositionOf(entries, v) == CHOOSE i \in 1..Len(entries) : entries[i].symbol = v

\* Where C19 puts a known v whose frequency becomes f: right after the
\* nearest entry to its left of frequency >= f, or first.
Landing(entries, p, f) ==
    LET ahead == {k \in 1..p - 1 : entries[k].frequency >= f}
    IN  IF ahead = {}
        THEN 1
        ELSE (CHOOSE k \in ahead : \A h \in ahead : h <= k) + 1

\* The entry list C19 expects after add(v).
AfterAdd(entries, v) ==
    IF \A i \in 1..Len(entries) : entries[i].symbol # v
    THEN Append(entries, [frequency |-> 1, symbol |-> v])
    ELSE LET p == PositionOf(entries, v)
             f == entries[p].frequency + 1
             q == Landing(entries, p, f)
         IN  SubSeq(entries, 1, q - 1)
                 \o <<[frequency |-> f, symbol |-> v]>>
                 \o SubSeq(entries, q, p - 1)
                 \o SubSeq(entries, p + 1, Len(entries))

\* C19: Table.add(v) keeps the relative order of all other entries: a new v
\* is appended last with frequency 1; a known v moves left to just after the
\* nearest entry on its left whose frequency is >= its new frequency (or to
\* the front), and each entry it passes shifts right by one.
C19_AddMovesOnlyItsEntry ==
    [][added' # added =>
        table'.entries = AfterAdd(table.entries, added'[Len(added')])]_vars

\* C19's case: the last add moved a known value left past an entry and
\* stopped behind an entry of at least its new frequency.
C19_Witness ==
    /\ Len(table.entries) >= 3
    /\ table.entries[2].symbol = added[Len(added)]
    /\ table.entries[2].frequency = 2
    /\ table.entries[1].frequency >= 2
    /\ FirstIndex(added, table.entries[2].symbol)
           > FirstIndex(added, table.entries[3].symbol)

\* The windows handed to Model::add so far.
AddedContexts == {model_adds[i] : i \in 1..Len(model_adds)}

\* C11: a context is a key of the model's map if and only if at least one
\* Model.add was made for it; the first add for a context creates one table
\* and later adds none, so there are as many tables as distinct contexts
\* added, each holding an observation.
C11_KeysAreTheAddedContexts ==
    /\ DOMAIN tables_by_seq = AddedContexts
    /\ Cardinality(DOMAIN tables_by_seq) = Cardinality(AddedContexts)
    /\ \A c \in Contexts :
           c \in DOMAIN tables_by_seq <=> \E i \in 1..Len(model_adds) : model_adds[i] = c
    /\ \A c \in DOMAIN tables_by_seq : tables_by_seq[c].total_symbols >= 1

\* C11's case: several contexts have tables, one of them added to more than
\* once, while other windows have none.
C11_Witness ==
    /\ Cardinality(DOMAIN tables_by_seq) >= 2
    /\ Len(model_adds) > Cardinality(DOMAIN tables_by_seq)
    /\ \E c \in Contexts : c \notin DOMAIN tables_by_seq

\* C12: predict on a context with no observation is "none"; once the first
\* observation add(context, symbol) is recorded for such a context, predict
\* on it returns that symbol.
C12_PredictAfterFirstObservation ==
    /\ [](\A c \in Contexts :
              c \notin DOMAIN tables_by_seq => model_predict(tables_by_seq, c) = None)
    /\ [][(model_adds' # model_adds /\ current_sequence \notin DOMAIN tables_by_seq)
             => /\ model_predict(tables_by_seq, current_sequence) = None
                /\ model_predict(tables_by_seq', current_sequence)
                       = calls'[Len(calls')]]_vars

\* C12's case: a context reached by advancing holds exactly one observation,
\* a symbol, which predict returns.
C12_Witness ==
    \E c \in DOMAIN tables_by_seq :
        /\ c # <<>>
        /\ tables_by_seq[c].total_symbols = 1
        /\ model_predict(tables_by_seq, c) \in Symbols

\* C16: in a model trained through the Accumulator every key of the map has
\* length at most the model's order.
C16_KeysWithinOrder ==
    \A c \in DOMAIN tables_by_seq : Len(c) <= order

\* C16's case: two adds in a row were made under full windows, the second
\* one after the oldest symbol was evicted.
C16_Witness ==
    /\ order >= 1
    /\ \E i \in 2..Len(model_adds) :
           /\ Len(model_adds[i]) = order
           /\ Len(model_adds[i - 1]) = order
           /\ model_adds[i] \in DOMAIN tables_by_seq

\* C20: predict(context) is "none" exactly when the context was never
\* observed or the end marker is the entry at position 0 of its table;
\* sample(context, x), x in [0, 1), is "none" exactly when the context was
\* never observed or the entry x selects is the end marker.
C20_NoneMeansUnseenOrEnd ==
    \A c \in Contexts :
        /\ model_predict(tables_by_seq, c) = None
               <=> (\/ c \notin DOMAIN tables_by_seq
                    \/ tables_by_seq[c].entries[1].symbol = None)
        /\ \A num \in UnitNums :
               model_sample(tables_by_seq, c, num) = None
                   <=> (\/ c \notin DOMAIN tables_by_seq
                        \/ EndSelected(tables_by_seq[c], num))

\* C20's case: one observed context has the end marker first, so predict is
\* "none"; another has a symbol first and the end marker behind it, so that
\* sample is "none" for some x only.
C20_Witness ==
    /\ \E c \in DOMAIN tables_by_seq :
           /\ tables_by_seq[c].entries[1].symbol = None
           /\ Len(tables_by_seq[c].entries) >= 2
           /\ model_predict(tables_by_seq, c) = None
    /\ \E c \in DOMAIN tables_by_seq : \E num \in UnitNums :
           /\ model_predict(tables_by_seq, c) # None
           /\ model_sample(tables_by_seq, c, num) = None

\* The operations that only read the model: Accumulator.predict, the
\* construction of a Predictor or a Generator, and every operation of these.
ReadOps ==
    {"acc_predict", "new_predictor", "new_generator", "given", "next",
     "predict", "predictor_end", "generate", "generator_end"}

\* C13: Model.predict, Model.sample and Model.advance, and so every
\* Generator and Predictor operation and Accumulator.predict, leave the
\* model unchanged: the same contexts, and for each the same table (entries,
\* their order, index and total), and the same order of the model.
C13_ReadsLeaveModelUnchanged ==
    [][last_call'.op \in ReadOps =>
        /\ DOMAIN tables_by_seq' = DOMAIN tables_by_seq
        /\ \A c \in DOMAIN tables_by_seq :
               /\ tables_by_seq'[c].entries = tables_by_seq[c].entries
               /\ tables_by_seq'[c].entry_indices = tables_by_seq[c].entry_indices
               /\ tables_by_seq'[c].total_symbols = tables_by_seq[c].total_symbols
        /\ order' = order]_vars

\* C13's case: a trained model is being read, from a window it has no
\* table for, and the last read returned a symbol and moved the window.
C13_Witness ==
    /\ ~panicked
    /\ tables_by_seq # <<>>
    /\ \/ /\ mode = "predictor"
          /\ last_call.op = "next"
          /\ last_call.symbol # None
          /\ predictor_sequence \notin DOMAIN tables_by_seq
       \/ /\ mode = "generator"
          /\ last_call.op = "generate"
          /\ last_call.symbol # None
          /\ generator_sequence \notin DOMAIN tables_by_seq

\* advance(context, symbol) as the specification defines it: the symbol
\* appended, and the last k kept for a model of order k.
Advanced(c, s) == LastN(Append(c, s), Min(Len(c) + 1, order))

\* C14: Generator.next returns Model.sample(context, x) for the value x it
\* drew; when that is a symbol the context becomes advance(context, symbol),
\* when it is "none" the context stays as it was; end() empties the context.
C14_GeneratorNextAndEnd ==
    [][/\ last_call'.op = "generate" =>
            LET s == model_sample(tables_by_seq, generator_sequence, last_call'.num)
            IN  /\ ~panicked'
                /\ last_call'.symbol = s
                /\ generator_sequence' =
                       IF s # None THEN Advanced(generator_sequence, s)
                                   ELSE generator_sequence
       /\ last_call'.op = "generator_end" => generator_sequence' = <<>>]_vars

\* C14's case: a Generator whose last next() found nothing to sample in a
\* window that is not empty, and left that window in place.
C14_Witness ==
    /\ mode = "generator"
    /\ last_call.op = "generate"
    /\ last_call.symbol = None
    /\ generator_sequence # <<>>
    /\ Len(generator_sequence) = order

\* C15 as stated, for the Predictor: predict() returns
\* Model.predict(context), leaves the context as it was, and a next() made
\* right after it returns the same value; next() returns
\* Model.predict(context) and advances the context by that symbol exactly
\* when there is one; given(symbol) advances the context by the symbol;
\* end() empties the context.
C15_PredictorOperations ==
    [][/\ last_call'.op = "predict" =>
            /\ last_call'.symbol = model_predict(tables_by_seq, predictor_sequence)
            /\ predictor_sequence' = predictor_sequence
            /\ predictor_next(tables_by_seq', order', predictor_sequence').out
                   = last_call'.symbol
       /\ last_call'.op = "next" =>
            LET s == model_predict(tables_by_seq, predictor_sequence)
            IN  /\ ~panicked'
                /\ last_call'.symbol = s
                /\ predictor_sequence' =
                       IF s # None THEN Advanced(predictor_sequence, s)
                                   ELSE predictor_sequence
       /\ last_call'.op = "given" =>
            /\ ~panicked'
            /\ predictor_sequence' = Advanced(predictor_sequence, last_call'.symbol)
       /\ last_call'.op = "predictor_end" => predictor_sequence' = <<>>]_vars

\* C15 for the models whose order is at least 1.
C15_PredictorOperationsOrderAtLeastOne ==
    [][order >= 1 =>
        /\ last_call'.op = "predict" =>
             /\ last_call'.symbol = model_predict(tables_by_seq, predictor_sequence)
             /\ predictor_sequence' = predictor_sequence
             /\ predictor_next(tables_by_seq', order', predictor_sequence').out
                    = last_call'.symbol
        /\ last_call'.op = "next" =>
             LET s == model_predict(tables_by_seq, predictor_sequence)
             IN  /\ ~panicked'
                 /\ last_call'.symbol = s
                 /\ predictor_sequence' =
                        IF s # None THEN Advanced(predictor_sequence, s)
                                    ELSE predictor_sequence
        /\ last_call'.op = "given" =>
             /\ ~panicked'
             /\ predictor_sequence' = Advanced(predictor_sequence, last_call'.symbol)
        /\ last_call'.op = "predictor_end" => predictor_sequence' = <<>>]_vars

\* C21 as stated: sample(x) with x < 0 or x >= 1 returns "none", on an empty
\* table and on one with observations.
C21_Original ==
    \A num \in SampleNums \ UnitNums : table_sample(table, num) = None

\* C21 as amended: sample(x) returns a value for every x; with x >= 1 it is
\* "none"; with x < 0 it is what the entry at position 0 holds, "none" only
\* on an empty table or when that entry is the end marker.
C21_OutOfRangeSample ==
    \A num \in SampleNums \ UnitNums :
        /\ table_sample(table, num) \in Values
        /\ num >= SampleDen => table_sample(table, num) = None
        /\ num < 0 =>
               table_sample(table, num) =
                   IF Len(table.entries) = 0 THEN None
                                             ELSE table.entries[1].symbol

\* C21's case: a sample with x < 0 on a table of several entries has
\* returned the first entry's symbol.
C21_Witness ==
    /\ last_sample.called
    /\ last_sample.num < 0
    /\ Len(table.entries) >= 2
    /\ last_sample.result # None
    /\ last_sample.result = table.entries[1].symbol

\* C22: a Model.add(context, v) changes only the table keyed by context:
\* the other keys are the same set, each with the same table (entries, their
\* order, index and total), and the one observation shows in the context's
\* table alone.
C22_AddChangesOnlyItsTable ==
    [][model_adds' # model_adds =>
        LET c == model_adds'[Len(model_adds')]
        IN  /\ DOMAIN tables_by_seq' \ {c} = DOMAIN tables_by_seq \ {c}
            /\ c \in DOMAIN tables_by_seq'
            /\ \A d \in DOMAIN tables_by_seq \ {c} :
                   tables_by_seq'[d] = tables_by_seq[d]
            /\ tables_by_seq'[c].total_symbols =
                   (IF c \in DOMAIN tables_by_seq
                    THEN tables_by_seq[c].total_symbols ELSE 0) + 1]_vars

\* C22's case: the last Model.add went to a context that already had a
\* table, in a model that holds tables for at least two other contexts.
C22_Witness ==
    /\ Len(model_adds) >= 2
    /\ \E i \in 1..Len(model_adds) - 1 : model_adds[i] = model_adds[Len(model_adds)]
    /\ Cardinality(DOMAIN tables_by_seq) >= 3
    /\ tables_by_seq[model_adds[Len(model_adds)]].total_symbols >= 2

\* C23: on a model trained through the Accumulator, a Generator whose
\* randomness source returns 0.0 and a Predictor, both started from the
\* empty context and stepped together, agree at every step: the Predictor's
\* next() returns what the Generator's next() has just returned ("none" at
\* the same step), neither fails, and both are left with the same context.
C23_GeneratorAtZeroIsPredictor ==
    /\ [](mode = "lockstep" /\ last_call.op # "generate"
             => generator_sequence = predictor_sequence)
    /\ [][(mode = "lockstep" /\ last_call.op = "generate"
               /\ last_call'.op = "next") =>
            /\ ~panicked /\ ~panicked'
            /\ last_call'.symbol = last_call.symbol
            /\ predictor_sequence' = generator_sequence']_vars

\* C23's case: both have taken steps that returned symbols, the first of
\* them chosen from a table of several entries, and stand at the same
\* non-empty context.
C23_Witness ==
    /\ mode = "lockstep"
    /\ last_call.op = "next"
    /\ last_call.symbol # None
    /\ Len(predictor_sequence) >= 2
    /\ generator_sequence = predictor_sequence
    /\ Len(tables_by_seq[<<>>].entries) >= 2

====
